---- MODULE Spec2Model ----
(***************************************************************************)
(* A model of the pthread marching-squares pipeline of tema1_par.c: main,  *)
(* the T workers, the four mutex-guarded one-time sections, the five       *)
(* barriers and the four sliced stages, with thread_get_slice computed in  *)
(* IEEE-754 binary64 as the C code computes it.                            *)
(***************************************************************************)
EXTENDS Integers, Sequences, FiniteSets, TLC

(***************************************************************************)
(* Program constants.                                                      *)
(***************************************************************************)
CONTOUR_CONFIG_COUNT == 16
STEP == 8
SIGMA == 200

\* Bits of a binary64 significand (DBL_MANT_DIG): the width `double` has in
\* thread_get_slice.
MantBits == 53

(***************************************************************************)
(* Bounds of the model.                                                    *)
(***************************************************************************)
\* Largest thread count of the interleaved pipeline.
MaxThreads == 3
\* Largest thread count and range of the slice computation on its own.
MaxSliceThreads == 11
MaxRange == 15
\* init_cmap on its own: thread counts up to and including
MaxCmapThreads == 49

(***************************************************************************)
(* binary64 arithmetic on non-negative values.  A double is 0 (the record  *)
(* with no bits) or [bits |-> b, pt |-> e] with b a sequence of MantBits   *)
(* bits, b[1] = 1, standing for 0.b1 b2 ... b53 (binary) * 2^e.            *)
(***************************************************************************)
DZero == [bits |-> << >>, pt |-> 0]

RECURSIVE NatBits(_)
\* The binary digits of n > 0, most significant first.
NatBits(n) == IF n = 0 THEN << >> ELSE Append(NatBits(n \div 2), n % 2)

RECURSIVE BitsNatUpTo(_, _)
\* The number whose binary digits are b[1..i].
BitsNatUpTo(b, i) == IF i = 0 THEN 0 ELSE 2 * BitsNatUpTo(b, i - 1) + b[i]

BitsNat(b) == BitsNatUpTo(b, Len(b))

\* b + 1 on a bit sequence holding a 0: the digits after the last 0 (all 1)
\* become 0 and that 0 becomes 1.
IncBits(b) ==
    LET z == CHOOSE i \in 1..Len(b) :
                 b[i] = 0 /\ \A j \in (i + 1)..Len(b) : b[j] = 1
    IN  [i \in 1..Len(b) |-> IF i < z THEN b[i] ELSE IF i = z THEN 1 ELSE 0]

AllOnes(b) == \A i \in 1..Len(b) : b[i] = 1

\* Round to nearest, ties to even: `b` holds at least MantBits bits with
\* b[1] = 1, of 0.b * 2^pt; `sticky` says whether non-zero digits follow b.
RoundNearestEven(b, pt, sticky) ==
    LET keep  == SubSeq(b, 1, MantBits)
        guard == IF Len(b) > MantBits THEN b[MantBits + 1] ELSE 0
        rest  == sticky \/ \E i \in (MantBits + 2)..Len(b) : b[i] = 1
        up    == guard = 1 /\ (rest \/ keep[MantBits] = 1)
    IN  IF ~up THEN [bits |-> keep, pt |-> pt]
        ELSE IF AllOnes(keep)
             THEN [bits |-> <<1>> \o [i \in 1..(MantBits - 1) |-> 0], pt |-> pt + 1]
             ELSE [bits |-> IncBits(keep), pt |-> pt]

RECURSIVE FracDigits(_, _, _, _, _)
\* Long division r / n, r < n: the digits after the binary point, from the
\* first 1 on, until `acc` holds `want` digits; `lead` counts the zeros
\* skipped before the first 1.  Result: <<digits, remainder, lead>>.
FracDigits(r, n, acc, want, lead) ==
    IF Len(acc) >= want \/ r = 0 THEN <<acc, r, lead>>
    ELSE LET d == IF 2 * r >= n THEN 1 ELSE 0
             s == 2 * r - d * n
         IN  IF d = 0 /\ Len(acc) = 0
             THEN FracDigits(s, n, acc, want, lead + 1)
             ELSE FracDigits(s, n, Append(acc, d), want, lead)

PadTo(b, len) == b \o [i \in 1..(len - Len(b)) |-> 0]

\* (double) a / (double) n for longs 0 <= a, 1 <= n, correctly rounded.
DDiv(a, n) ==
    IF a = 0 THEN DZero
    ELSE LET ip == NatBits(a \div n)
             fd == FracDigits(a % n, n, ip, MantBits + 1, 0)
             pt == IF Len(ip) > 0 THEN Len(ip) ELSE 0 - fd[3]
         IN  RoundNearestEven(PadTo(fd[1], MantBits + 1), pt, fd[2] # 0)

RECURSIVE MulBitsFrom(_, _, _, _)
\* k * b[1..i] + carry as a bit sequence, least significant digit first
\* through the carry.
MulBitsFrom(b, i, k, carry) ==
    IF i = 0 THEN NatBits(carry)
    ELSE LET v == k * b[i] + carry
         IN  IF v >= 0 THEN Append(MulBitsFrom(b, i - 1, k, v \div 2), v % 2)
             ELSE << >>

MulBits(b, k) == MulBitsFrom(b, Len(b), k, 0)

\* (double) k * d for a long k >= 0: the exact product rounded once.
DMulLong(k, d) ==
    IF k = 0 \/ d = DZero THEN DZero
    ELSE LET prod == MulBits(d.bits, k)
         IN  RoundNearestEven(prod, d.pt + (Len(prod) - MantBits), FALSE)

\* (long) d: truncation toward zero.
DToLong(d) ==
    IF d = DZero \/ d.pt <= 0 THEN 0
    ELSE BitsNat(SubSeq(PadTo(d.bits, d.pt), 1, d.pt))

\* d < (double) n for a long n >= 0.
DLessLong(d, n) == DToLong(d) < n

(***************************************************************************)
(* thread_get_slice (tema1_par.c:62-70).                                   *)
(***************************************************************************)
\* .end = MIN((tid + 1) * ratio, range), converted to long.
SliceEnd(tid, nthreads, range) ==
    LET hi == DMulLong(tid + 1, DDiv(range, nthreads))
    IN  IF DLessLong(hi, range) THEN DToLong(hi) ELSE range

\* .start = tid * ratio, converted to long.
SliceStart(tid, nthreads, range) ==
    DToLong(DMulLong(tid, DDiv(range, nthreads)))

thread_get_slice(tid, nthreads, range) ==
    [start |-> SliceStart(tid, nthreads, range),
     end   |-> SliceEnd(tid, nthreads, range)]

\* The indices start..end-1 a worker's loop `for (i = slice.start; i < slice.end; ++i)`
\* visits.
SliceSet(tid, nthreads, range) ==
    UNION {s.start..(s.end - 1) : s \in {thread_get_slice(tid, nthreads, range)}}

(***************************************************************************)
(* Values.  NULL is the null pointer; UNINIT is the content of storage     *)
(* that malloc returned and nothing wrote yet: reading it gives any byte.  *)
(***************************************************************************)
NULL == 0
UNINIT == -1
\* A column pointer of the grid that was never stored.
NoColumn == << >>

\* The bytes an indeterminate read is made to produce.
IndetBytes == {0, 1, 8, 255}

Byte(v, g) == IF v = UNINIT THEN g ELSE v

\* ppm_pixel: three bytes.
Pixel(r, g, b) == (r * 256 + g) * 256 + b
Red(px)   == px \div 65536
Green(px) == (px \div 256) % 256
Blue(px)  == px % 256
Grey(v) == Pixel(v, v, v)
PixelOr(px, g) == IF px = UNINIT THEN Grey(g) ELSE px

(***************************************************************************)
(* The collaborators outside tema1_par.c: the target resolution, the files *)
(* read_ppm decodes and the resampler.                                     *)
(***************************************************************************)
RESCALE_X == 16
RESCALE_Y == 16

\* The input files of the model: name |-> decoded image.
InputFiles == {"black16", "half16", "white8", "half17"}

FileImage(name) ==
    CASE name = "black16" ->
           [x |-> 16, y |-> 16, data |-> [i \in 0..255 |-> Grey(0)]]
      [] name = "half16" ->
           [x |-> 16, y |-> 16,
            data |-> [i \in 0..255 |-> IF i \div 16 < 8 THEN Grey(SIGMA)
                                                       ELSE Grey(SIGMA + 1)]]
      [] name = "white8" ->
           [x |-> 8, y |-> 8, data |-> [i \in 0..63 |-> Grey(255)]]
      [] name = "half17" ->
           [x |-> 17, y |-> 17,
            data |-> [i \in 0..288 |-> IF i % 17 < 9 THEN Grey(0)
                                                     ELSE Grey(255)]]

\* read_ppm("./contours/<k>.ppm"): a STEP x STEP glyph (x = y = STEP); pixel c
\* of its data names k and its place in the glyph.
GlyphPixel(k, c) == Pixel(k, c \div STEP, c % STEP)

\* sample_bicubic(image, u, v, sample) at u = (i / RESCALE_Y) / (RESCALE_X - 1),
\* v = (i % RESCALE_Y) / (RESCALE_Y - 1): a pure function of the source
\* image and (u, v); here the source pixel at (u * (x - 1), v * (y - 1)).
SampleIndex(image, i) ==
    (((i \div RESCALE_Y) * (image.x - 1)) \div (RESCALE_X - 1)) * image.y
      + ((i % RESCALE_Y) * (image.y - 1)) \div (RESCALE_Y - 1)

sample_bicubic(image, i) == image.data[SampleIndex(image, i)]

(***************************************************************************)
(* Heap objects.  ImgAddr is the ppm_image read_ppm returns for the input, *)
(* SclAddr the one worker() allocates for the scaled picture.              *)
(***************************************************************************)
ImgAddr == 1
SclAddr == 2
NoObj == [x |-> UNINIT, y |-> UNINIT, data |-> << >>]

\* malloc(sizeof(ppm_image)) and malloc(RESCALE_X * RESCALE_Y * sizeof(ppm_pixel))
FreshScaled ==
    [x |-> UNINIT, y |-> UNINIT,
     data |-> [i \in 0..(RESCALE_X * RESCALE_Y - 1) |-> UNINIT]]

(***************************************************************************)
(* Locks and barriers (the two enums).                                     *)
(***************************************************************************)
LOCK_CMAP_ALLOC == "LOCK_CMAP_ALLOC"
LOCK_IMAGE_READ == "LOCK_IMAGE_READ"
LOCK_GRID_ALLOC == "LOCK_GRID_ALLOC"
LOCK_WRITE      == "LOCK_WRITE"
Locks == {LOCK_CMAP_ALLOC, LOCK_IMAGE_READ, LOCK_GRID_ALLOC, LOCK_WRITE}

BARRIER_CMAP_AND_IMAGE_ALLOC     == "BARRIER_CMAP_AND_IMAGE_ALLOC"
BARRIER_RESCALE_IMAGE            == "BARRIER_RESCALE_IMAGE"
BARRIER_CMAP_INIT_AND_GRID_ALLOC == "BARRIER_CMAP_INIT_AND_GRID_ALLOC"
BARRIER_SAMPLE_GRID              == "BARRIER_SAMPLE_GRID"
BARRIER_MARCH                    == "BARRIER_MARCH"
Barriers == {BARRIER_CMAP_AND_IMAGE_ALLOC, BARRIER_RESCALE_IMAGE,
             BARRIER_CMAP_INIT_AND_GRID_ALLOC, BARRIER_SAMPLE_GRID,
             BARRIER_MARCH}

NoOwner == -1

\* The error codes a failing pthread_create / pthread_join returns here
\* (EAGAIN, ESRCH).
CreateErrors == {11}
JoinErrors == {3}

(***************************************************************************)
(* Memory locations, for the sets of locations a worker read and wrote     *)
(* outside the critical sections since the last barrier release.           *)
(***************************************************************************)
LHdrX(a)     == <<"hdr", a, 0>>
LHdrY(a)     == <<"hdr", a, 1>>
LPix(a, i)   == <<"pix", a, i>>
LCmap(k)     == <<"cmap", k, 0>>
LCol(i)      == <<"col", i, 0>>
LCell(i, j)  == <<"cell", i, j>>

VARIABLES
    sl,         \* the slice computation on its own (SpecSlice)
    nthreads,   \* shared->nthreads = atol(argv[3])
    filename_in,\* shared->filename_in = argv[1]
    main,       \* main: [pc, i, rc] and how many threads it created, joined
    pc,         \* each worker's position
    shared,     \* shared->image, ->scaled, ->cmap, ->grid, ->finished
    heap,       \* the ppm_image objects shared->image / ->scaled point to
    cmap,       \* the storage shared->cmap points to: 16 glyph pointers
    grid,       \* the storage shared->grid points to: columns of cells
    locks,      \* each mutex's owner
    barriers,   \* each barrier: [count, waiting, gen], and its arrivals so far
    wgen,       \* the barrier generation each blocked worker waits to pass
    outfile,    \* the file write_ppm wrote
    crashed,    \* the process died on a wild memory access
    onceCount,  \* how often each one-time body ran; who ran it
    callErr,    \* the error code of the library call that failed, or 0
    wr, rd,     \* locations written / read since the last barrier release
    run,        \* which run of the program this is
    first       \* what the first run left behind

vars == <<sl, nthreads, filename_in, main, pc, shared, heap, cmap, grid,
          locks, barriers, wgen, outfile, crashed, onceCount, callErr,
          wr, rd, run, first>>

progVars == <<nthreads, filename_in, main, pc, shared, heap, cmap, grid,
              locks, barriers, wgen, outfile, crashed, onceCount, callErr,
              wr, rd, run, first>>

Tids == 0..(nthreads - 1)

NoFile == [x |-> 0, y |-> 0, data |-> << >>]
NoRun == [nthreads |-> 0]
NoSlices == [nthreads |-> 0, range |-> 0, slices |-> << >>]

(***************************************************************************)
(* The state main() builds before it creates the first thread              *)
(* (tema1_par.c:239-257): the zeroed context, the four mutexes, the five   *)
(* barriers.                                                               *)
(***************************************************************************)
\* A barrier created for one participant too few.
BarrierCountOffByOne(n) == n - 1

\* pthread_barrier_init(&shared->barriers[i], NULL, shared->nthreads)
BarrierCount(n) == n

StartState(n) ==
    [main      |-> [pc |-> "create", i |-> 0, rc |-> 0, created |-> 0,
                    joined |-> 0],
     pc        |-> [t \in 0..(n - 1) |-> "unstarted"],
     shared    |-> [image |-> NULL, scaled |-> NULL, cmap |-> NULL,
                    grid |-> NULL, finished |-> 0],
     heap      |-> [a \in {ImgAddr, SclAddr} |-> NoObj],
     locks     |-> [l \in Locks |-> NoOwner],
     barriers  |-> [b \in Barriers |->
                      [count |-> BarrierCount(n), waiting |-> 0, gen |-> 0,
                       arrivals |-> 0]],
     wgen      |-> [t \in 0..(n - 1) |-> 0],
     onceCount |-> [l \in Locks |-> 0],
     sets      |-> [t \in 0..(n - 1) |-> {}]]

ProgInit(n, f) ==
    /\ nthreads = n
    /\ filename_in = f
    /\ main = StartState(n).main
    /\ pc = StartState(n).pc
    /\ shared = StartState(n).shared
    /\ heap = StartState(n).heap
    /\ cmap = << >>
    /\ grid = << >>
    /\ locks = StartState(n).locks
    /\ barriers = StartState(n).barriers
    /\ wgen = StartState(n).wgen
    /\ outfile = NoFile
    /\ crashed = FALSE
    /\ onceCount = StartState(n).onceCount
    /\ callErr = 0
    /\ wr = StartState(n).sets
    /\ rd = StartState(n).sets

Init ==
    /\ sl = NoSlices
    /\ run = 1
    /\ first = NoRun
    /\ \E n \in 1..MaxThreads, f \in InputFiles : ProgInit(n, f)

\* The process runs: main has not returned (exit ends every thread) and no
\* thread died on a wild access.
Alive == main.pc # "returned" /\ ~crashed

Goto(t, l) == pc' = [pc EXCEPT ![t] = l]

(***************************************************************************)
(* Mutexes.                                                                *)
(***************************************************************************)
\* A lock call that returns although another thread owns the mutex.
LockWithoutWaiting(t, l, from, to) ==
    /\ Alive
    /\ pc[t] = from
    /\ locks' = [locks EXCEPT ![l] = t]
    /\ Goto(t, to)
    /\ UNCHANGED <<sl, nthreads, filename_in, main, shared, heap, cmap, grid,
                   barriers, wgen, outfile, crashed, onceCount, callErr,
                   wr, rd, run, first>>

\* pthread_mutex_lock: blocks while another thread owns the mutex.
Lock(t, l, from, to) ==
    /\ Alive
    /\ pc[t] = from
    /\ locks[l] = NoOwner
    /\ locks' = [locks EXCEPT ![l] = t]
    /\ Goto(t, to)
    /\ UNCHANGED <<sl, nthreads, filename_in, main, shared, heap, cmap, grid,
                   barriers, wgen, outfile, crashed, onceCount, callErr,
                   wr, rd, run, first>>

\* A path that leaves the section without the unlock call.
UnlockForgotten(t, l, from, to) ==
    /\ Alive
    /\ pc[t] = from
    /\ Goto(t, to)
    /\ UNCHANGED <<sl, nthreads, filename_in, main, shared, heap, cmap, grid,
                   locks, barriers, wgen, outfile, crashed, onceCount, callErr,
                   wr, rd, run, first>>

\* pthread_mutex_unlock
Unlock(t, l, from, to) ==
    /\ Alive
    /\ pc[t] = from
    /\ locks' = [locks EXCEPT ![l] = NoOwner]
    /\ Goto(t, to)
    /\ UNCHANGED <<sl, nthreads, filename_in, main, shared, heap, cmap, grid,
                   barriers, wgen, outfile, crashed, onceCount, callErr,
                   wr, rd, run, first>>

(***************************************************************************)
(* Barriers.  A worker at "b_<s>" is about to call pthread_barrier_wait, at *)
(* "w_<s>" it is blocked inside the call.                                  *)
(***************************************************************************)
\* A worker whose second wait names the first barrier again.
BarrierOfRepeated(l) ==
    CASE l \in {"b_alloc", "w_alloc", "b_rescale", "w_rescale"}
                                          -> BARRIER_CMAP_AND_IMAGE_ALLOC
      [] l \in {"b_cmap", "w_cmap"}       -> BARRIER_CMAP_INIT_AND_GRID_ALLOC
      [] l \in {"b_sample", "w_sample"}   -> BARRIER_SAMPLE_GRID
      [] l \in {"b_march", "w_march"}     -> BARRIER_MARCH

BarrierOf(l) ==
    CASE l \in {"b_alloc", "w_alloc"}     -> BARRIER_CMAP_AND_IMAGE_ALLOC
      [] l \in {"b_rescale", "w_rescale"} -> BARRIER_RESCALE_IMAGE
      [] l \in {"b_cmap", "w_cmap"}       -> BARRIER_CMAP_INIT_AND_GRID_ALLOC
      [] l \in {"b_sample", "w_sample"}   -> BARRIER_SAMPLE_GRID
      [] l \in {"b_march", "w_march"}     -> BARRIER_MARCH

Blocked(l) ==
    CASE l = "b_alloc" -> "w_alloc" [] l = "b_rescale" -> "w_rescale"
      [] l = "b_cmap" -> "w_cmap"   [] l = "b_sample" -> "w_sample"
      [] l = "b_march" -> "w_march"

\* The statement after the pthread_barrier_wait call.
AfterBarrier(l) ==
    CASE l \in {"b_alloc", "w_alloc"}     -> "rescale"
      [] l \in {"b_rescale", "w_rescale"} -> "lock_grid"
      [] l \in {"b_cmap", "w_cmap"}       -> "sample_grid"
      [] l \in {"b_sample", "w_sample"}   -> "march"
      [] l \in {"b_march", "w_march"}     -> "lock_write"

ArriveLabels == {"b_alloc", "b_rescale", "b_cmap", "b_sample", "b_march"}
BlockedLabels == {"w_alloc", "w_rescale", "w_cmap", "w_sample", "w_march"}

\* pthread_barrier_wait, the arrival: the count-th arrival releases the
\* waiters and resets the barrier, any other one blocks.
BarrierArrive(t) ==
    /\ Alive
    /\ pc[t] \in ArriveLabels
    /\ LET b == BarrierOf(pc[t])
           B == barriers[b]
       IN  IF B.waiting + 1 = B.count
           THEN /\ barriers' = [barriers EXCEPT
                                  ![b] = [B EXCEPT !.waiting = 0, !.gen = @ + 1,
                                                   !.arrivals = @ + 1]]
                /\ Goto(t, AfterBarrier(pc[t]))
                /\ wr' = [u \in DOMAIN wr |-> {}]
                /\ rd' = [u \in DOMAIN rd |-> {}]
                /\ UNCHANGED wgen
           ELSE /\ barriers' = [barriers EXCEPT
                                  ![b] = [B EXCEPT !.waiting = @ + 1,
                                                   !.arrivals = @ + 1]]
                /\ Goto(t, Blocked(pc[t]))
                /\ wgen' = [wgen EXCEPT ![t] = B.gen]
                /\ UNCHANGED <<wr, rd>>
    /\ UNCHANGED <<sl, nthreads, filename_in, main, shared, heap, cmap, grid,
                   locks, outfile, crashed, onceCount, callErr, run, first>>

\* pthread_barrier_wait, the return of a blocked caller.
BarrierPass(t) ==
    /\ Alive
    /\ pc[t] \in BlockedLabels
    /\ barriers[BarrierOf(pc[t])].gen # wgen[t]
    /\ Goto(t, AfterBarrier(pc[t]))
    /\ UNCHANGED <<sl, nthreads, filename_in, main, shared, heap, cmap, grid,
                   locks, barriers, wgen, outfile, crashed, onceCount, callErr,
                   wr, rd, run, first>>

(***************************************************************************)
(* worker(), the one-time sections (tema1_par.c:191-206, 212-216, 226-231) *)
(***************************************************************************)
\* A section whose test of the sentinel always passes.
SentinelIgnored(v) == TRUE

\* if (!shared->image), if (!shared->cmap), if (!shared->grid),
\* if (!shared->finished)
SentinelUnset(v) == v = NULL

Fits(image) == image.x <= RESCALE_X /\ image.y <= RESCALE_Y

\* A worker that allocates a fresh picture whatever the size of the input.
ScaledAlwaysAllocated(image) == SclAddr

\* A worker that leaves shared->scaled unset when the input fits.
ScaledOnlyWhenTooBig(image) == IF Fits(image) THEN NULL ELSE SclAddr

\* Lines 194-199: the pointer stored in shared->scaled.
ScaledFor(image) == IF Fits(image) THEN ImgAddr ELSE SclAddr

LockImage(t) == Lock(t, LOCK_IMAGE_READ, "lock_image", "cs_image")

\* Lines 192-193: the test, and shared->image = read_ppm(shared->filename_in).
CsImage(t) ==
    /\ Alive
    /\ pc[t] = "cs_image"
    /\ IF SentinelUnset(shared.image)
       THEN /\ shared' = [shared EXCEPT !.image = ImgAddr]
            /\ heap' = [heap EXCEPT ![ImgAddr] = FileImage(filename_in)]
            /\ onceCount' = [onceCount EXCEPT ![LOCK_IMAGE_READ] = @ + 1]
            /\ Goto(t, "set_scaled")
       ELSE /\ Goto(t, "unlock_image")
            /\ UNCHANGED <<shared, heap, onceCount>>
    /\ UNCHANGED <<sl, nthreads, filename_in, main, cmap, grid, locks,
                   barriers, wgen, outfile, crashed, callErr, wr, rd, run,
                   first>>

\* Lines 194-199: shared->scaled is the image itself, or a fresh ppm_image
\* with a fresh pixel buffer.
SetScaled(t) ==
    /\ Alive
    /\ pc[t] = "set_scaled"
    /\ LET to == ScaledFor(heap[shared.image])
       IN  /\ shared' = [shared EXCEPT !.scaled = to]
           /\ heap' = IF to \in {shared.image, NULL} THEN heap
                      ELSE [heap EXCEPT ![to] = FreshScaled]
    /\ Goto(t, "unlock_image")
    /\ UNCHANGED <<sl, nthreads, filename_in, main, cmap, grid, locks,
                   barriers, wgen, outfile, crashed, onceCount, callErr,
                   wr, rd, run, first>>

UnlockImage(t) == Unlock(t, LOCK_IMAGE_READ, "unlock_image", "lock_cmap")

LockCmap(t) == Lock(t, LOCK_CMAP_ALLOC, "lock_cmap", "cs_cmap")

\* Lines 203-205: shared->cmap = malloc(CONTOUR_CONFIG_COUNT * sizeof(ppm_image *))
CsCmap(t) ==
    /\ Alive
    /\ pc[t] = "cs_cmap"
    /\ IF SentinelUnset(shared.cmap)
       THEN /\ shared' = [shared EXCEPT !.cmap = 1]
            /\ cmap' = [k \in 0..(CONTOUR_CONFIG_COUNT - 1) |-> UNINIT]
            /\ onceCount' = [onceCount EXCEPT ![LOCK_CMAP_ALLOC] = @ + 1]
       ELSE UNCHANGED <<shared, cmap, onceCount>>
    /\ Goto(t, "unlock_cmap")
    /\ UNCHANGED <<sl, nthreads, filename_in, main, heap, grid, locks,
                   barriers, wgen, outfile, crashed, callErr, wr, rd, run,
                   first>>

UnlockCmap(t) == Unlock(t, LOCK_CMAP_ALLOC, "unlock_cmap", "b_alloc")

LockGrid(t) == Lock(t, LOCK_GRID_ALLOC, "lock_grid", "cs_grid")

\* Lines 213-215: shared->grid = malloc((shared->scaled->x / STEP + 1) * ...)
CsGrid(t) ==
    /\ Alive
    /\ pc[t] = "cs_grid"
    /\ IF SentinelUnset(shared.grid)
       THEN /\ shared' = [shared EXCEPT !.grid = 1]
            /\ grid' = [i \in 0..(heap[shared.scaled].x \div STEP) |-> NoColumn]
            /\ onceCount' = [onceCount EXCEPT ![LOCK_GRID_ALLOC] = @ + 1]
            /\ rd' = [rd EXCEPT ![t] = @ \cup {LHdrX(shared.scaled)}]
       ELSE UNCHANGED <<shared, grid, onceCount, rd>>
    /\ Goto(t, "unlock_grid")
    /\ UNCHANGED <<sl, nthreads, filename_in, main, heap, cmap, locks,
                   barriers, wgen, outfile, crashed, callErr, wr, run, first>>

UnlockGrid(t) == Unlock(t, LOCK_GRID_ALLOC, "unlock_grid", "init_cmap")

LockWrite(t) == Lock(t, LOCK_WRITE, "lock_write", "cs_write")

\* Lines 227-228: the test, and shared->finished = 1.
CsWrite(t) ==
    /\ Alive
    /\ pc[t] = "cs_write"
    /\ IF SentinelUnset(shared.finished)
       THEN /\ shared' = [shared EXCEPT !.finished = 1]
            /\ onceCount' = [onceCount EXCEPT ![LOCK_WRITE] = @ + 1]
            /\ Goto(t, "write_ppm")
       ELSE /\ Goto(t, "unlock_write")
            /\ UNCHANGED <<shared, onceCount>>
    /\ UNCHANGED <<sl, nthreads, filename_in, main, heap, cmap, grid, locks,
                   barriers, wgen, outfile, crashed, callErr, wr, rd, run,
                   first>>

\* Line 229: write_ppm(shared->scaled, shared->filename_out)
WritePpm(t) ==
    /\ Alive
    /\ pc[t] = "write_ppm"
    /\ outfile' = heap[shared.scaled]
    /\ Goto(t, "unlock_write")
    /\ UNCHANGED <<sl, nthreads, filename_in, main, shared, heap, cmap, grid,
                   locks, barriers, wgen, crashed, onceCount, callErr, wr, rd,
                   run, first>>

UnlockWrite(t) == Unlock(t, LOCK_WRITE, "unlock_write", "done")

(***************************************************************************)
(* The sliced stages.  Each call is one step of its worker: the locations  *)
(* it reads and writes are recorded in rd and wr.                          *)
(***************************************************************************)
\* rescale_image (tema1_par.c:84-107), called at line 209.
Rescale(t) ==
    /\ Alive
    /\ pc[t] = "rescale"
    /\ LET src   == shared.image
           dst   == shared.scaled
           image == heap[src]
       IN  \E slice \in {SliceSet(t, nthreads, RESCALE_X * RESCALE_Y)} :
           IF Fits(image)
           THEN /\ rd' = [rd EXCEPT ![t] = @ \cup {LHdrX(src), LHdrY(src)}]
                /\ UNCHANGED <<heap, wr>>
           ELSE /\ heap' = [heap EXCEPT ![dst] =
                      [x |-> RESCALE_X, y |-> RESCALE_Y,
                       data |-> [i \in DOMAIN heap[dst].data |->
                                   IF i \in slice THEN sample_bicubic(image, i)
                                   ELSE heap[dst].data[i]]]]
                /\ wr' = [wr EXCEPT ![t] = @ \cup {LHdrX(dst), LHdrY(dst)}
                                             \cup {LPix(dst, i) : i \in slice}]
                /\ rd' = [rd EXCEPT ![t] = @ \cup {LHdrX(src), LHdrY(src)}
                              \cup {LPix(src, SampleIndex(image, i)) : i \in slice}]
    /\ Goto(t, "b_rescale")
    /\ UNCHANGED <<sl, nthreads, filename_in, main, shared, cmap, grid, locks,
                   barriers, wgen, outfile, crashed, onceCount, callErr, run,
                   first>>

\* init_cmap (tema1_par.c:72-82), called at line 217: cmap[i] is the glyph
\* read from ./contours/<i>.ppm.
InitCmap(t) ==
    /\ Alive
    /\ pc[t] = "init_cmap"
    /\ \E slice \in {SliceSet(t, nthreads, CONTOUR_CONFIG_COUNT)} :
           /\ cmap' = [k \in DOMAIN cmap |-> IF k \in slice THEN k ELSE cmap[k]]
           /\ wr' = [wr EXCEPT ![t] = @ \cup {LCmap(k) : k \in slice}]
    /\ Goto(t, "b_cmap")
    /\ UNCHANGED <<sl, nthreads, filename_in, main, shared, heap, grid, locks,
                   barriers, wgen, outfile, crashed, onceCount, callErr, rd,
                   run, first>>

\* curr_col <= SIGMA
Below(curr_col) == IF curr_col <= SIGMA THEN 1 ELSE 0

\* curr_col = (curr_pix.red + curr_pix.green + curr_pix.blue) / 3 and the
\* comparison; g stands for an indeterminate byte.
Cell(px, g) ==
    LET curr_pix == PixelOr(px, g)
    IN  Below((Red(curr_pix) + Green(curr_pix) + Blue(curr_pix)) \div 3)

\* Lines 121-131: column i of the grid.
SampledColumn(image, i, q, g) ==
    [j \in 0..q |->
        IF j = q THEN Cell(image.data[i * STEP * image.y + image.x - 1], g)
        ELSE Cell(image.data[i * STEP * image.y + j * STEP], g)]

\* Lines 136-142: column p of the grid; the loop stops before cell q.
LastColumn(image, q, g) ==
    [j \in 0..q |->
        IF j < q THEN Cell(image.data[(image.x - 1) * image.y + j * STEP], g)
        ELSE UNINIT]

SampleReads(a, image, slice, q, last) ==
    {LHdrX(a), LHdrY(a)}
      \cup {LPix(a, i * STEP * image.y + image.x - 1) : i \in slice}
      \cup {LPix(a, i * STEP * image.y + j * STEP) : i \in slice, j \in 0..(q - 1)}
      \cup IF last
           THEN {LPix(a, (image.x - 1) * image.y + j * STEP) : j \in 0..(q - 1)}
           ELSE {}

\* sample_grid (tema1_par.c:109-144), called at line 220.
SampleGrid(t) ==
    /\ Alive
    /\ pc[t] = "sample_grid"
    /\ LET a     == shared.scaled
           image == heap[a]
           p     == image.x \div STEP
           q     == image.y \div STEP
           last  == t = nthreads - 1
       IN  \E slice \in {SliceSet(t, nthreads, p)} :
           \E reads \in {SampleReads(a, image, slice, q, last)} :
           LET indet == \E l \in reads : l[1] = "pix" /\ image.data[l[3]] = UNINIT
           IN
           /\ \E g \in IF indet THEN IndetBytes ELSE {0} :
                grid' = [i \in DOMAIN grid |->
                           IF i \in slice THEN SampledColumn(image, i, q, g)
                           ELSE IF last /\ i = p THEN LastColumn(image, q, g)
                           ELSE grid[i]]
           /\ wr' = [wr EXCEPT ![t] = @
                       \cup {LCol(i) : i \in slice}
                       \cup {LCell(i, j) : i \in slice, j \in 0..q}
                       \cup IF last
                            THEN {LCol(p)} \cup {LCell(p, j) : j \in 0..(q - 1)}
                            ELSE {}]
           /\ rd' = [rd EXCEPT ![t] = @ \cup reads]
    /\ Goto(t, "b_sample")
    /\ UNCHANGED <<sl, nthreads, filename_in, main, shared, heap, cmap, locks,
                   barriers, wgen, outfile, crashed, onceCount, callErr, run,
                   first>>

\* A configuration index that march cannot use without a wild access: a
\* column never allocated, k outside cmap, or a cmap entry never stored.
WILD == -1

\* Lines 178-181: k as march computes it for cell (i, j), an unsigned char.
ConfigIndex(i, j, g) ==
    IF grid[i] = NoColumn \/ grid[i + 1] = NoColumn THEN WILD
    ELSE LET k == (8 * Byte(grid[i][j], g)
                   + 4 * Byte(grid[i][j + 1], g)
                   + 2 * Byte(grid[i + 1][j + 1], g)
                   +     Byte(grid[i + 1][j], g)) % 256
         IN  IF k >= CONTOUR_CONFIG_COUNT THEN WILD
             ELSE IF cmap[k] = UNINIT THEN WILD ELSE k

MarchReadsIndet(slice, q) ==
    \E i \in slice, j \in 0..(q - 1) :
        /\ grid[i] # NoColumn
        /\ grid[i + 1] # NoColumn
        /\ UNINIT \in {grid[i][j], grid[i][j + 1], grid[i + 1][j + 1], grid[i + 1][j]}

\* march_update (tema1_par.c:146-162) for every cell of the slice: the pixel
\* at index idx of the picture after the glyphs were copied in.
MarchedPixel(image, idx, slice, q, g) ==
    LET i == (idx \div image.y) \div STEP
        j == (idx % image.y) \div STEP
    IN  IF i \in slice /\ j < q
        THEN LET k == ConfigIndex(i, j, g)
             IN  IF k = WILD THEN UNINIT
                 ELSE GlyphPixel(cmap[k], (STEP * ((idx \div image.y) % STEP))
                                           + ((idx % image.y) % STEP))
        ELSE image.data[idx]

\* march (tema1_par.c:164-185), called at line 223.  A wild access either
\* kills the process or copies indeterminate bytes.
March(t) ==
    /\ Alive
    /\ pc[t] = "march"
    /\ LET a     == shared.scaled
           image == heap[a]
           p     == image.x \div STEP
           q     == image.y \div STEP
       IN  \E slice \in {SliceSet(t, nthreads, p)} :
           \E g \in IF MarchReadsIndet(slice, q) THEN IndetBytes ELSE {0} :
           LET wild == \E i \in slice, j \in 0..(q - 1) : ConfigIndex(i, j, g) = WILD
           IN  \E segv \in IF wild THEN BOOLEAN ELSE {FALSE} :
               IF segv
               THEN /\ crashed' = TRUE
                    /\ UNCHANGED <<heap, wr, rd, pc>>
               ELSE /\ crashed' = FALSE
                    /\ heap' = [heap EXCEPT ![a].data =
                                  [idx \in DOMAIN image.data |->
                                      MarchedPixel(image, idx, slice, q, g)]]
                    /\ wr' = [wr EXCEPT ![t] = @ \cup
                                {LPix(a, idx) : idx \in
                                    {d \in DOMAIN image.data :
                                        /\ (d \div image.y) \div STEP \in slice
                                        /\ (d % image.y) \div STEP < q}}]
                    /\ rd' = [rd EXCEPT ![t] = @ \cup {LHdrX(a), LHdrY(a)}
                                \cup {LCol(i) : i \in {c + e : c \in slice, e \in {0, 1}}}
                                \cup {LCell(i, j) :
                                        i \in {c + e : c \in slice, e \in {0, 1}},
                                        j \in IF q > 0 THEN 0..q ELSE {}}
                                \cup {LCmap(k) : k \in
                                        {ConfigIndex(i, j, g) :
                                            i \in slice, j \in 0..(q - 1)} \ {WILD}}]
                    /\ Goto(t, "b_march")
    /\ UNCHANGED <<sl, nthreads, filename_in, main, shared, cmap, grid, locks,
                   barriers, wgen, outfile, onceCount, callErr, run, first>>

(***************************************************************************)
(* main() (tema1_par.c:259-279).                                           *)
(***************************************************************************)
\* return rc;
ReturnCode(rc) == rc

\* Lines 259-265, one iteration in which pthread_create succeeds: worker i
\* starts.
CreateOk ==
    /\ Alive
    /\ main.pc = "create"
    /\ pc' = [pc EXCEPT ![main.i] = "lock_image"]
    /\ main' = IF main.i + 1 < nthreads
               THEN [main EXCEPT !.i = @ + 1, !.created = @ + 1]
               ELSE [main EXCEPT !.pc = "join", !.i = 0, !.created = @ + 1]
    /\ UNCHANGED <<sl, nthreads, filename_in, shared, heap, cmap, grid, locks,
                   barriers, wgen, outfile, crashed, onceCount, callErr, wr,
                   rd, run, first>>

\* Lines 262-264: pthread_create fails with error code e; main returns it.
CreateFail ==
    /\ Alive
    /\ main.pc = "create"
    /\ \E e \in CreateErrors :
          /\ callErr' = e
          /\ main' = [main EXCEPT !.pc = "returned", !.rc = ReturnCode(e)]
    /\ UNCHANGED <<sl, nthreads, filename_in, pc, shared, heap, cmap, grid,
                   locks, barriers, wgen, outfile, crashed, onceCount, wr, rd,
                   run, first>>

\* A join that returns 0 while the thread still runs.
JoinWithoutWaiting(t) == TRUE

\* pthread_join(threads[t], NULL) returns 0 once worker t has returned.
Joinable(t) == pc[t] = "done"

\* Lines 266-270, one iteration in which pthread_join succeeds.
JoinOk ==
    /\ Alive
    /\ main.pc = "join"
    /\ Joinable(main.i)
    /\ main' = IF main.i + 1 < nthreads
               THEN [main EXCEPT !.i = @ + 1, !.joined = @ + 1]
               ELSE [main EXCEPT !.pc = "destroy", !.i = 0, !.joined = @ + 1]
    /\ UNCHANGED <<sl, nthreads, filename_in, pc, shared, heap, cmap, grid,
                   locks, barriers, wgen, outfile, crashed, onceCount, callErr,
                   wr, rd, run, first>>

\* Lines 267-269: pthread_join fails with error code e; main returns it.
JoinFail ==
    /\ Alive
    /\ main.pc = "join"
    /\ \E e \in JoinErrors :
          /\ callErr' = e
          /\ main' = [main EXCEPT !.pc = "returned", !.rc = ReturnCode(e)]
    /\ UNCHANGED <<sl, nthreads, filename_in, pc, shared, heap, cmap, grid,
                   locks, barriers, wgen, outfile, crashed, onceCount, wr, rd,
                   run, first>>

\* Lines 272-279: the mutexes and barriers are destroyed; return 0.
MainDestroy ==
    /\ Alive
    /\ main.pc = "destroy"
    /\ main' = [main EXCEPT !.pc = "returned", !.rc = 0]
    /\ UNCHANGED <<sl, nthreads, filename_in, pc, shared, heap, cmap, grid,
                   locks, barriers, wgen, outfile, crashed, onceCount, callErr,
                   wr, rd, run, first>>

\* The program is started once more on the same input file, with the same
\* thread count or with one thread, after a run that returned 0
\* (tema1_par.c:239-257 again).
Rerun ==
    /\ run = 1
    /\ main.pc = "returned"
    /\ main.rc = 0
    /\ ~crashed
    /\ run' = 2
    /\ first' = [nthreads |-> nthreads, outfile |-> outfile, grid |-> grid]
    /\ \E n \in {nthreads, 1} :
         /\ nthreads' = n
         /\ main' = StartState(n).main
         /\ pc' = StartState(n).pc
         /\ shared' = StartState(n).shared
         /\ heap' = StartState(n).heap
         /\ locks' = StartState(n).locks
         /\ barriers' = StartState(n).barriers
         /\ wgen' = StartState(n).wgen
         /\ onceCount' = StartState(n).onceCount
         /\ wr' = StartState(n).sets
         /\ rd' = StartState(n).sets
    /\ cmap' = << >>
    /\ grid' = << >>
    /\ outfile' = NoFile
    /\ callErr' = 0
    /\ UNCHANGED <<sl, filename_in, crashed>>

ProgNext ==
    \/ CreateOk \/ CreateFail \/ JoinOk \/ JoinFail \/ MainDestroy
    \/ \E t \in Tids : LockImage(t)
    \/ \E t \in Tids : CsImage(t)
    \/ \E t \in Tids : SetScaled(t)
    \/ \E t \in Tids : UnlockImage(t)
    \/ \E t \in Tids : LockCmap(t)
    \/ \E t \in Tids : CsCmap(t)
    \/ \E t \in Tids : UnlockCmap(t)
    \/ \E t \in Tids : BarrierArrive(t)
    \/ \E t \in Tids : BarrierPass(t)
    \/ \E t \in Tids : Rescale(t)
    \/ \E t \in Tids : LockGrid(t)
    \/ \E t \in Tids : CsGrid(t)
    \/ \E t \in Tids : UnlockGrid(t)
    \/ \E t \in Tids : InitCmap(t)
    \/ \E t \in Tids : SampleGrid(t)
    \/ \E t \in Tids : March(t)
    \/ \E t \in Tids : LockWrite(t)
    \/ \E t \in Tids : CsWrite(t)
    \/ \E t \in Tids : WritePpm(t)
    \/ \E t \in Tids : UnlockWrite(t)

Next == ProgNext \/ Rerun

Spec == Init /\ [][Next]_vars

(***************************************************************************)
(* thread_get_slice on its own: the ordinals 0..nthreads-1 call it in turn *)
(* for one range.                                                          *)
(***************************************************************************)
InitSlice ==
    /\ run = 1
    /\ first = NoRun
    /\ ProgInit(1, "black16")
    /\ \E n \in 1..MaxSliceThreads, r \in 0..MaxRange :
        sl = [nthreads |-> n, range |-> r, slices |-> << >>]

SliceCall ==
    /\ Len(sl.slices) < sl.nthreads
    /\ sl' = [sl EXCEPT !.slices =
                Append(@, thread_get_slice(Len(sl.slices), sl.nthreads, sl.range))]
    /\ UNCHANGED progVars

SpecSlice == InitSlice /\ [][SliceCall]_vars

(***************************************************************************)
(* The order of a worker's positions in worker() (tema1_par.c:187-234).    *)
(***************************************************************************)
Order ==
    <<"unstarted", "lock_image", "cs_image", "set_scaled", "unlock_image",
      "lock_cmap", "cs_cmap", "unlock_cmap", "b_alloc", "w_alloc", "rescale",
      "b_rescale", "w_rescale", "lock_grid", "cs_grid", "unlock_grid",
      "init_cmap", "b_cmap", "w_cmap", "sample_grid", "b_sample", "w_sample",
      "march", "b_march", "w_march", "lock_write", "cs_write", "write_ppm",
      "unlock_write", "done">>

PosOf ==
    [l \in {Order[i] : i \in 1..Len(Order)} |->
        CHOOSE i \in 1..Len(Order) : Order[i] = l]

Pos(l) == PosOf[l]

\* The position at which the one-time body guarded by lock l has just run.
BodyDone(l) ==
    CASE l = LOCK_IMAGE_READ -> "set_scaled"
      [] l = LOCK_CMAP_ALLOC -> "unlock_cmap"
      [] l = LOCK_GRID_ALLOC -> "unlock_grid"
      [] l = LOCK_WRITE      -> "write_ppm"

(***************************************************************************)
(* Claims.                                                                 *)
(***************************************************************************)

C2_Staged ==
    /\ \A b \in Barriers : barriers[b].count = nthreads
    /\ \A l \in ArriveLabels : \A t, u \in Tids :
          Pos(pc[t]) > Pos(Blocked(l)) => Pos(pc[u]) >= Pos(l)
    /\ (outfile # NoFile \/ \E t \in Tids : pc[t] = "write_ppm")
          => \A u \in Tids : Pos(pc[u]) >= Pos("b_march")

\* One worker is writing the output while another, released from the last
\* barrier, has not yet left it.
C2_Witness ==
    \E t, u \in Tids : pc[t] = "write_ppm" /\ pc[u] = "w_march"

\* C3: for every range and thread count the nthreads slices
\* [start, end) are pairwise disjoint, contiguous in ordinal order, and
\* cover [0, range) exactly.
C3_SlicesPartition ==
    (sl.nthreads > 0 /\ Len(sl.slices) = sl.nthreads) =>
        /\ sl.slices[1].start = 0
        /\ sl.slices[sl.nthreads].end = sl.range
        /\ \A k \in 1..sl.nthreads : sl.slices[k].start <= sl.slices[k].end
        /\ \A k \in 1..(sl.nthreads - 1) :
              sl.slices[k].end = sl.slices[k + 1].start

C5_Deterministic ==
    (run = 2 /\ nthreads = first.nthreads /\ outfile # NoFile)
        => outfile = first.outfile

\* C6: a run with one thread on the same input ends with the same grid and
\* the same output file as a run with several threads.
C6_ThreadCountInvariant ==
    (/\ run = 2
     /\ nthreads = 1
     /\ first.nthreads > 1
     /\ main.pc = "returned"
     /\ main.rc = 0)
        => outfile = first.outfile /\ grid = first.grid

\* What read_ppm decodes from each input file.
Decoded == [f \in InputFiles |-> FileImage(f)]

\* The rescale stage: between the release of the allocation barrier and the
\* release of the rescale barrier.
RescalePhase ==
    /\ barriers[BARRIER_CMAP_AND_IMAGE_ALLOC].gen = 1
    /\ barriers[BARRIER_RESCALE_IMAGE].gen = 0

\* C7: when the input fits the target resolution, shared->scaled is the
\* input picture itself and no worker writes anything in the rescale stage;
\* otherwise shared->scaled is a separately allocated picture, and neither
\* the rescale stage nor any later one writes the source picture.
C7_AliasOrFresh ==
    shared.scaled # NULL =>
        IF Fits(heap[shared.image])
        THEN /\ shared.scaled = shared.image
             /\ RescalePhase =>
                   /\ \A t \in Tids : wr[t] = {}
                   /\ heap[shared.image] = Decoded[filename_in]
        ELSE /\ shared.scaled # shared.image
             /\ heap[shared.scaled] # NoObj
             /\ heap[shared.image] = Decoded[filename_in]
             /\ RescalePhase =>
                   \A t \in Tids : \A l \in wr[t] : l[2] # shared.image

\* Several workers have all returned from rescale_image on an input that
\* fits, and still wait for the barrier's release.
C7_Witness ==
    /\ nthreads >= 2
    /\ RescalePhase
    /\ shared.scaled = shared.image
    /\ \E t \in Tids : pc[t] = "b_rescale"
    /\ \A t \in Tids : pc[t] \in {"b_rescale", "w_rescale"}

\* C8: main returns 0 only after it created all nthreads workers and joined
\* every one of them, each having returned; when a create or join call
\* fails, main has returned that call's nonzero error code.
C8_MainReturn ==
    /\ (main.pc = "destroy" \/ (main.pc = "returned" /\ main.rc = 0)) =>
          /\ main.created = nthreads
          /\ main.joined = nthreads
          /\ \A t \in Tids : pc[t] = "done"
    /\ (main.pc = "returned" /\ main.rc = 0) => callErr = 0
    /\ callErr # 0 =>
          main.pc = "returned" /\ main.rc = callErr /\ main.rc # 0

\* main returned 0 after several workers wrote the output and returned.
C8_Witness ==
    /\ nthreads >= 2
    /\ main.pc = "returned"
    /\ main.rc = 0
    /\ main.joined = nthreads
    /\ outfile # NoFile

\* The mutex a worker at a "lock_<s>" position is about to take.
LockAt(l) ==
    CASE l = "lock_image" -> LOCK_IMAGE_READ
      [] l = "lock_cmap"  -> LOCK_CMAP_ALLOC
      [] l = "lock_grid"  -> LOCK_GRID_ALLOC
      [] l = "lock_write" -> LOCK_WRITE

\* Worker t runs and is not blocked in pthread_mutex_lock or
\* pthread_barrier_wait.
Runnable(t) ==
    /\ pc[t] \notin {"unstarted", "done"}
    /\ pc[t] \in {"lock_image", "lock_cmap", "lock_grid", "lock_write"}
          => locks[LockAt(pc[t])] = NoOwner
    /\ pc[t] \in BlockedLabels => barriers[BarrierOf(pc[t])].gen # wgen[t]

\* main is not blocked in pthread_join.
MainRunnable == main.pc = "join" => Joinable(main.i)

\* C9: as long as no pthread call has failed and main has not returned,
\* the process is alive and main or some worker can take its next step:
\* under every interleaving the program goes on to main's return.
C9_NeverStuck ==
    (callErr = 0 /\ main.pc # "returned") =>
        /\ Alive
        /\ MainRunnable \/ \E t \in Tids : Runnable(t)

\* The same with the process alive: no interleaving blocks every thread.
NoDeadlock ==
    (callErr = 0 /\ main.pc # "returned" /\ ~crashed) =>
        MainRunnable \/ \E t \in Tids : Runnable(t)

\* C10: within a stage the workers write pairwise disjoint sets of
\* locations, each writes only elements of its own slice of the stage's
\* output, and none reads a location another one writes in that stage.
C10_DisjointWrites ==
    /\ \A t, u \in Tids :
          t # u => wr[t] \cap wr[u] = {} /\ rd[t] \cap wr[u] = {}
    /\ \A t \in Tids :
          wr[t] # {} =>
            LET image == heap[shared.scaled]
                range == IF barriers[BARRIER_RESCALE_IMAGE].gen = 0
                         THEN RESCALE_X * RESCALE_Y
                         ELSE IF barriers[BARRIER_CMAP_INIT_AND_GRID_ALLOC].gen = 0
                         THEN CONTOUR_CONFIG_COUNT
                         ELSE image.x \div STEP
            IN  \A slice \in {SliceSet(t, nthreads, range)} :
                \A l \in wr[t] :
                    CASE l[1] = "hdr" -> FALSE
                      [] l[1] \in {"cmap", "col", "cell"} -> l[2] \in slice
                      [] l[1] = "pix" ->
                           IF barriers[BARRIER_RESCALE_IMAGE].gen = 0
                           THEN l[3] \in slice
                           ELSE (l[3] \div image.y) \div STEP \in slice

\* C11 as stated: in each one-time section the sentinel is the last write,
\* so whenever shared->image is set the scaled picture is set up, and
\* whenever shared->finished is set the output has been written.
C11_SentinelLast ==
    /\ shared.image # NULL => shared.scaled # NULL
    /\ shared.finished # 0 => outfile # NoFile

\* C11 amended: the sentinel is the first write of the image section and of
\* the write section, and the body completes under the section's mutex:
\* while the sentinel is set and the body unfinished, the worker finishing
\* it owns the mutex, and a worker that tests a set sentinel finds the
\* scaled picture set up, respectively the output written.
C11_SentinelUnderLock ==
    /\ (shared.image # NULL /\ shared.scaled = NULL) =>
          \E t \in Tids : pc[t] = "set_scaled" /\ locks[LOCK_IMAGE_READ] = t
    /\ (shared.finished # 0 /\ outfile = NoFile) =>
          \E t \in Tids : pc[t] = "write_ppm" /\ locks[LOCK_WRITE] = t
    /\ \A u \in Tids :
          (pc[u] = "cs_image" /\ shared.image # NULL) =>
              shared.scaled # NULL /\ heap[shared.scaled] # NoObj
    /\ \A u \in Tids :
          (pc[u] = "cs_write" /\ shared.finished # 0) => outfile # NoFile

\* A worker has set shared->image and not yet shared->scaled, while another
\* waits for the mutex.
C11_Witness ==
    \E t, u \in Tids :
        /\ pc[t] = "set_scaled"
        /\ shared.image # NULL
        /\ shared.scaled = NULL
        /\ pc[u] = "lock_image"

\* The sampling stage is over: its barrier has released.
Sampled == barriers[BARRIER_SAMPLE_GRID].gen = 1

\* C12: after the sampling stage the last grid column p is allocated and
\* every one of its q + 1 cells grid[p][0..q] has been written.
C12_LastColumnWritten ==
    Sampled =>
        LET image == heap[shared.scaled]
            p     == image.x \div STEP
            q     == image.y \div STEP
        IN  /\ grid[p] # NoColumn
            /\ \A j \in 0..q : grid[p][j] \in {0, 1}

\* C13: for the 16 x 16 all-black input, after sampling every cell of the
\* 3 x 3 grid is 1, and after marching each of the four cells of the picture
\* holds glyph 15.
C13_BlackImage ==
    filename_in = "black16" =>
        /\ Sampled =>
              \A i \in 0..2 : \A j \in 0..2 : grid[i][j] = 1
        /\ barriers[BARRIER_MARCH].gen = 1 =>
              \A idx \in DOMAIN heap[shared.scaled].data :
                  /\ heap[shared.scaled].data[idx] # UNINIT
                  /\ Red(heap[shared.scaled].data[idx]) = 15

\* The order in which C14 has the barriers waited on, and the positions of
\* the five pthread_barrier_wait calls in worker().
WaitOrder ==
    <<BARRIER_CMAP_AND_IMAGE_ALLOC, BARRIER_RESCALE_IMAGE,
      BARRIER_CMAP_INIT_AND_GRID_ALLOC, BARRIER_SAMPLE_GRID, BARRIER_MARCH>>

WaitCalls == <<"b_alloc", "b_rescale", "b_cmap", "b_sample", "b_march">>

\* C14: the k-th barrier of the order has received one arrival from each
\* worker that is past its k-th wait call and none from any other, never
\* more than nthreads in all; it has released once when all nthreads have
\* arrived and not before, and never twice; no worker arrives at a barrier
\* before the one preceding it in the order has released; when every
\* worker has returned, each barrier has had nthreads arrivals and one
\* release.
C14_BarriersOnce ==
    /\ \A k \in 1..5 :
          LET B == barriers[WaitOrder[k]]
          IN  /\ B.arrivals =
                    Cardinality({t \in Tids : Pos(pc[t]) > Pos(WaitCalls[k])})
              /\ B.arrivals <= nthreads
              /\ B.gen = IF B.arrivals = nthreads THEN 1 ELSE 0
              /\ B.waiting = IF B.gen = 0 THEN B.arrivals ELSE 0
    /\ \A k \in 1..4 :
          barriers[WaitOrder[k + 1]].arrivals > 0 =>
              barriers[WaitOrder[k]].gen = 1
    /\ (\A t \in Tids : pc[t] = "done") =>
          \A b \in Barriers :
              barriers[b].arrivals = nthreads /\ barriers[b].gen = 1

\* Three workers returned, and every barrier had three arrivals and one
\* release.
C14_Witness ==
    /\ nthreads = 3
    /\ \A t \in Tids : pc[t] = "done"
    /\ \A b \in Barriers : barriers[b].arrivals = 3 /\ barriers[b].gen = 1

(***************************************************************************)
(* init_cmap on its own (tema1_par.c:72-82): the ordinals 0..nthreads-1    *)
(* each take their slice of the CONTOUR_CONFIG_COUNT glyph indices (line   *)
(* 75) and store cmap[i] for every i in it (lines 77-81).                  *)
(***************************************************************************)
InitCmapSlices ==
    /\ run = 1
    /\ first = NoRun
    /\ ProgInit(1, "black16")
    /\ \E n \in 1..MaxCmapThreads :
        sl = [nthreads |-> n, range |-> CONTOUR_CONFIG_COUNT, slices |-> << >>]

SpecCmap == InitCmapSlices /\ [][SliceCall]_vars

\* The ordinals whose init_cmap call stores cmap[k].
CmapWriters(k) ==
    {i \in 1..Len(sl.slices) : sl.slices[i].start <= k /\ k < sl.slices[i].end}

\* C15: once every worker has run init_cmap, each glyph-table entry cmap[k],
\* k in [0, 16), has been written, by exactly one worker, for every thread
\* count (also above 16).
C15_CmapPopulatedOnce ==
    (sl.range = CONTOUR_CONFIG_COUNT /\ Len(sl.slices) = sl.nthreads) =>
        \A k \in 0..(CONTOUR_CONFIG_COUNT - 1) : Cardinality(CmapWriters(k)) = 1

(***************************************************************************)
(* The program with an allocation that can fail.  worker() stores what     *)
(* malloc returns without testing it (tema1_par.c:204): when malloc        *)
(* returns NULL, shared->cmap stays NULL and the worker goes on.           *)
(***************************************************************************)
\* The errno of a failing malloc (ENOMEM).
AllocErrors == {12}

\* Lines 203-205 with malloc returning NULL.
CsCmapFail(t) ==
    /\ Alive
    /\ pc[t] = "cs_cmap"
    /\ SentinelUnset(shared.cmap)
    /\ \E e \in AllocErrors : callErr' = e
    /\ Goto(t, "unlock_cmap")
    /\ UNCHANGED <<sl, nthreads, filename_in, main, shared, heap, cmap, grid,
                   locks, barriers, wgen, outfile, crashed, onceCount, wr, rd,
                   run, first>>

\* init_cmap called with cmap = NULL (line 217): the store cmap[i] of line
\* 80 goes through the null pointer and the process dies on it.
InitCmapNull(t) ==
    /\ Alive
    /\ pc[t] = "init_cmap"
    /\ shared.cmap = NULL
    /\ SliceSet(t, nthreads, CONTOUR_CONFIG_COUNT) # {}
    /\ crashed' = TRUE
    /\ UNCHANGED <<sl, nthreads, filename_in, main, pc, shared, heap, cmap,
                   grid, locks, barriers, wgen, outfile, onceCount, callErr,
                   wr, rd, run, first>>

NextFail ==
    \/ CreateOk \/ CreateFail \/ JoinOk \/ JoinFail \/ MainDestroy
    \/ \E t \in Tids : LockImage(t)
    \/ \E t \in Tids : CsImage(t)
    \/ \E t \in Tids : SetScaled(t)
    \/ \E t \in Tids : UnlockImage(t)
    \/ \E t \in Tids : LockCmap(t)
    \/ \E t \in Tids : CsCmap(t)
    \/ \E t \in Tids : CsCmapFail(t)
    \/ \E t \in Tids : UnlockCmap(t)
    \/ \E t \in Tids : BarrierArrive(t)
    \/ \E t \in Tids : BarrierPass(t)
    \/ \E t \in Tids : Rescale(t)
    \/ \E t \in Tids : LockGrid(t)
    \/ \E t \in Tids : CsGrid(t)
    \/ \E t \in Tids : UnlockGrid(t)
    \/ \E t \in Tids : shared.cmap # NULL /\ InitCmap(t)
    \/ \E t \in Tids : InitCmapNull(t)
    \/ \E t \in Tids : SampleGrid(t)
    \/ \E t \in Tids : March(t)
    \/ \E t \in Tids : LockWrite(t)
    \/ \E t \in Tids : CsWrite(t)
    \/ \E t \in Tids : WritePpm(t)
    \/ \E t \in Tids : UnlockWrite(t)

SpecFail == Init /\ [][NextFail]_vars

\* C16: once a library call has failed (a thread create or join, or an
\* allocation of a one-time initialization), the process has terminated
\* with a nonzero status: main has returned it, and nothing ran past the
\* failed call.
C16_FailStops ==
    callErr # 0 => main.pc = "returned" /\ main.rc # 0

\* The mutexes worker t owns.
Held(t) == {l \in Locks : locks[l] = t}

\* The mutex a worker owns at each position inside a one-time section.
SectionLock(l) ==
    CASE l \in {"cs_image", "set_scaled", "unlock_image"} -> {LOCK_IMAGE_READ}
      [] l \in {"cs_cmap", "unlock_cmap"}                 -> {LOCK_CMAP_ALLOC}
      [] l \in {"cs_grid", "unlock_grid"}                 -> {LOCK_GRID_ALLOC}
      [] l \in {"cs_write", "write_ppm", "unlock_write"}  -> {LOCK_WRITE}
      [] OTHER                                            -> {}

\* C17: a worker owns exactly the mutex of the one-time section it is in,
\* on the initializing path and on the already-done path alike, and none
\* anywhere else: never two at once, none when it is about to take a mutex,
\* in a sliced stage, at or in a barrier wait, or after it returned; so the
\* worker that unlocks a mutex is the one that locked it.
C17_LockDiscipline ==
    /\ \A t \in Tids : Held(t) = SectionLock(pc[t])
    /\ \A l \in Locks : locks[l] \in Tids \cup {NoOwner}

\* A worker on the already-done path of the write section still owns the
\* mutex, about to unlock it, after another worker wrote the output and
\* returned.
C17_Witness ==
    \E t, u \in Tids :
        /\ t # u
        /\ pc[u] = "done"
        /\ pc[t] = "unlock_write"
        /\ locks[LOCK_WRITE] = t
        /\ outfile # NoFile

\* C18: every grid cell march reads was stored as 0 or 1 by the sampling
\* stage, for every worker about to march over its slice, so that k lies
\* in [0, 16) and no access leaves the glyph table: the process never dies
\* on a wild access.
C18_MarchReadsWritten ==
    /\ ~crashed
    /\ \A t \in Tids :
          pc[t] = "march" =>
            LET image == heap[shared.scaled]
                p     == image.x \div STEP
                q     == image.y \div STEP
            IN  \A slice \in {SliceSet(t, nthreads, p)} :
                \A i \in slice : \A j \in 0..(q - 1) :
                    /\ grid[i] # NoColumn
                    /\ grid[i + 1] # NoColumn
                    /\ {grid[i][j], grid[i][j + 1],
                        grid[i + 1][j + 1], grid[i + 1][j]} \subseteq {0, 1}

\* C19: while main has not created all nthreads workers, and after a
\* pthread_create failed, no worker is past the first barrier, which has
\* not released; nothing was rescaled, loaded, sampled or marched, and no
\* output was written; after the failure main has returned the error code.
C19_CreateFailure ==
    (main.created < nthreads \/ callErr \in CreateErrors) =>
        /\ \A t \in Tids : Pos(pc[t]) <= Pos("w_alloc")
        /\ barriers[BARRIER_CMAP_AND_IMAGE_ALLOC].gen = 0
        /\ \A t \in Tids : wr[t] = {} /\ rd[t] = {}
        /\ \A k \in DOMAIN cmap : cmap[k] = UNINIT
        /\ grid = << >>
        /\ outfile = NoFile
        /\ callErr \in CreateErrors =>
              main.pc = "returned" /\ main.rc = callErr /\ main.rc # 0

\* pthread_create failed after at least one worker was started, and every
\* started worker is blocked in the first barrier.
C19_Witness ==
    /\ callErr \in CreateErrors
    /\ main.created >= 1
    /\ main.created < nthreads
    /\ \A t \in 0..(main.created - 1) : pc[t] = "w_alloc"

====
